---- MODULE Spec2Model ----
(***************************************************************************)
(* VaultGuard mobile: the key lifecycle of the authentication store        *)
(* (useAuthStore), the secure local key-value store, the authentication    *)
(* service calls and the screens that drive them.                          *)
(*                                                                         *)
(* Every `await` of the code is a point where another call may run, so an  *)
(* asynchronous store action is a sequence of steps held in a call slot    *)
(* (calls[p]).  Platform events (app state changes, completions of native  *)
(* calls, process restart) may arrive at any time; user gestures are taken *)
(* on a screen that is rendered and settled (UiReady).                     *)
(***************************************************************************)
EXTENDS Integers, Sequences, FiniteSets, TLC

VARIABLES
    auth,         \* useAuthStore state: user, accessToken, refreshToken,
                  \* encryptionKey, isAuthenticated, isLoading, error
    secureStore,  \* expo-secure-store: storage key -> value
    calls,        \* asynchronous calls in flight, one record per slot
    serverPw,     \* authentication service: account -> password on record
    wire,         \* the last request body sent to the authentication service
    appState,     \* AppState.currentState
    listener,     \* values captured by the registered AppState listener
    route,        \* expo-router: the route group/screen shown
    unlockScreen, \* UnlockScreen instance: unmounted, or its biometricEnabled state
    random,       \* crypto.getRandomValues: how many nonces it has handed out
    issuedIvs,    \* the iv of every record encryptData has returned, in order
    cipher,       \* direct use of the cipher: the last call, its arguments and result
    server,       \* vault service: the vaults and encrypted items it stores
    vaultStore,   \* useVaultStore state
    itemStore,    \* useVaultItemStore state: items, decryptedItems, isLoading, error
    itemCalls,    \* asynchronous vault and item calls in flight, one record per slot
    api,          \* apiClient: the requests made through it and where each stands
    clipboard     \* expo-clipboard content, the timers of clipboard.ts and the clock

\* the variables of the cipher, the vault service and the vault stores, which
\* the session actions never touch
dataVars == <<random, issuedIvs, cipher, server, vaultStore, itemStore, itemCalls>>

\* the session variables other than the store and the secure store
sessionVars == <<calls, serverPw, wire, appState, listener, route, unlockScreen>>

\* the API client and the clipboard, which neither the session actions nor the
\* vault actions touch
serviceVars == <<api, clipboard>>

vars == <<auth, secureStore, calls, serverPw, wire, appState, listener, route, unlockScreen,
          random, issuedIvs, cipher, server, vaultStore, itemStore, itemCalls, api, clipboard>>

----------------------------------------------------------------------------
(* Values *)

NULL == "null"

Accounts == {"u1", "u2"}

\* master passwords a user may type: two strong ones and one below the minimum
Passwords == {"Sup3rSecret!", "Passw0rd#2", "short"}

MIN_PASSWORD_LENGTH == 8

ACCESS_TOKEN == "vaultguard_access_token"
REFRESH_TOKEN == "vaultguard_refresh_token"
BIOMETRIC_ENABLED == "vaultguard_biometric_enabled"
BIOMETRIC_PASSWORD == "vaultguard_biometric_password"

STORAGE_KEYS == {ACCESS_TOKEN, REFRESH_TOKEN, BIOMETRIC_ENABLED, BIOMETRIC_PASSWORD}

\* calls that may be in flight at once
MaxCalls == 2

Procs == 1..MaxCalls

\* tokens the authentication service issues for an account
AccessTokenOf(u) == "at-" \o u
RefreshTokenOf(u) == "rt-" \o u

\* PBKDF2-SHA256(password, salt) encoded as base64: a deterministic function,
\* injective in both arguments (distinct inputs give distinct keys).
pbkdf2Sha256(masterPassword, salt) == "key(" \o masterPassword \o "," \o salt \o ")"

DerivedKeys == {pbkdf2Sha256(pw, u) : pw \in Passwords, u \in Accounts}

\* isStrongPassword: the length test (all passwords of the model of sufficient
\* length have upper case, lower case and a digit)
isStrongPassword(password) == Len(password) >= MIN_PASSWORD_LENGTH

\* deriveEncryptionKey's validation of its arguments; NULL when they pass
DeriveInputError(masterPassword, userId) ==
    IF masterPassword = "" \/ Len(masterPassword) < MIN_PASSWORD_LENGTH
    THEN "Master password must be at least 8 characters"
    ELSE IF userId = "" \/ userId = NULL
    THEN "User ID is required as salt"
    ELSE NULL

\* handleApiError(error).message for the two ways a remote call fails
handleApiError(outcome) ==
    IF outcome = "rejected" THEN "An error occurred"
    ELSE "Network error - please check your connection"

\* request bodies posted to the authentication service
NoRequest == [endpoint |-> "none", email |-> NULL, password |-> NULL]
LoginRequest(email, password) ==
    [endpoint |-> "/api/v1/authentication/login", email |-> email, password |-> password]
RegisterRequest(email, password) ==
    [endpoint |-> "/api/v1/authentication/register", email |-> email, password |-> password]
LogoutRequest == [endpoint |-> "/api/v1/authentication/logout", email |-> NULL, password |-> NULL]

----------------------------------------------------------------------------
(* The cipher (aes-gcm.ts).  Byte arrays and texts are strings; AES-GCM,    *)
(* base64, UTF-8 and JSON are injective encodings whose inverses are found  *)
(* by search over the values of the model.                                  *)

\* nonces the random source can hand out; it never hands out the same twice
MaxNonces == 3

Nonces == <<"n1", "n2", "n3", "n4">>

\* crypto.getRandomValues(new Uint8Array(12)) after `drawn` earlier calls
getRandomValues(drawn) == Nonces[drawn + 1]

\* keys in use: the session key of account u2 and the key a wrong password gives
CipherKeys == {pbkdf2Sha256(pw, "u2") : pw \in {"Passw0rd#2", "Sup3rSecret!"}}

\* the structured data of vault items, and JSON.stringify of it
ItemData == {"p1", "p2"}

JSONstringify(data) == "{\"password\":\"" \o data \o "\"}"

\* a string holding an unpaired surrogate, and U+FFFD
LoneSurrogate == "<U+D83D>"
ReplacementChar == "<U+FFFD>"

\* plaintext strings given to encryptData: the empty string, JSON texts, a
\* text that is not JSON, and a string that is not well-formed UTF-16
Plaintexts == {"", "plain text", LoneSurrogate} \cup {JSONstringify(d) : d \in ItemData}

SyntaxError == "SyntaxError: Unexpected token in JSON"

\* JSON.parse(text): the data, or SyntaxError thrown
JSONparse(text) ==
    IF \E d \in ItemData : JSONstringify(d) = text
    THEN [ok |-> TRUE, value |-> CHOOSE d \in ItemData : JSONstringify(d) = text]
    ELSE [ok |-> FALSE, value |-> SyntaxError]

\* new TextEncoder().encode(s): lone surrogates are encoded as U+FFFD
TextEncoderEncode(s) == "utf8:" \o (IF s = LoneSurrogate THEN ReplacementChar ELSE s)

DecodedTexts == (Plaintexts \ {LoneSurrogate}) \cup {ReplacementChar}

\* new TextDecoder().decode(bytes)
TextDecoderDecode(bytes) == CHOOSE s \in DecodedTexts : TextEncoderEncode(s) = bytes

PlaintextBytes == {TextEncoderEncode(s) : s \in Plaintexts}

\* crypto.subtle.encrypt with AES-GCM: ciphertext and 16-byte tag, each
\* determined by (plaintext, key, iv) and different for different arguments
gcmCiphertext(bytes, keyBytes, iv) == "ct[" \o bytes \o "|" \o keyBytes \o "|" \o iv \o "]"
gcmTag(bytes, keyBytes, iv) == "tag[" \o bytes \o "|" \o keyBytes \o "|" \o iv \o "]"

\* a byte array with a bit flipped
FlipBit(bytes) == "~" \o bytes

\* the raw bytes of a derived key
KeyBytes(key) == "raw:" \o key

\* byte arrays that occur: nonces, cipher outputs, and those with a bit flipped
CipherBytes ==
    LET ivs == {Nonces[i] : i \in 1..Len(Nonces)}
        out == ivs
               \cup {gcmCiphertext(b, KeyBytes(k), iv) : b \in PlaintextBytes, k \in CipherKeys, iv \in ivs}
               \cup {gcmTag(b, KeyBytes(k), iv) : b \in PlaintextBytes, k \in CipherKeys, iv \in ivs}
    IN  out \cup {FlipBit(b) : b \in out}

\* bytesToBase64(bytes)
bytesToBase64(bytes) == "b64:" \o bytes

BadBase64 == "InvalidCharacterError"

\* base64ToBytes(base64): the bytes, or BadBase64 when base64Decode throws.
\* The derived keys are base64 texts (deriveEncryptionKey returns base64).
base64ToBytes(base64) ==
    IF base64 \in DerivedKeys THEN KeyBytes(base64)
    ELSE IF \E b \in CipherBytes : "b64:" \o b = base64
    THEN CHOOSE b \in CipherBytes : "b64:" \o b = base64
    ELSE BadBase64

gcmDecrypt_anyKey(ciphertext, authTag, keyBytes, iv) ==
    IF \E b \in PlaintextBytes, k \in CipherKeys : ciphertext = gcmCiphertext(b, KeyBytes(k), iv)
    THEN [ok |-> TRUE, value |-> CHOOSE b \in PlaintextBytes :
                                    \E k \in CipherKeys : ciphertext = gcmCiphertext(b, KeyBytes(k), iv)]
    ELSE [ok |-> FALSE, value |-> "OperationError"]

\* crypto.subtle.decrypt with AES-GCM: the plaintext bytes when ciphertext and
\* tag are those of some plaintext under this key and iv, else OperationError
gcmDecrypt(ciphertext, authTag, keyBytes, iv) ==
    IF \E b \in PlaintextBytes : ciphertext = gcmCiphertext(b, keyBytes, iv) /\ authTag = gcmTag(b, keyBytes, iv)
    THEN [ok |-> TRUE, value |-> CHOOSE b \in PlaintextBytes :
                                    ciphertext = gcmCiphertext(b, keyBytes, iv) /\ authTag = gcmTag(b, keyBytes, iv)]
    ELSE [ok |-> FALSE, value |-> "OperationError"]

\* EncryptedData; a missing or empty field is ""
NoRecord == [encryptedData |-> "", iv |-> "", authTag |-> ""]

\* how a call of the cipher ends: an Error thrown, a value, or a record
Thrown(message) == [ok |-> FALSE, value |-> message, record |-> NoRecord]
Returned(value) == [ok |-> TRUE, value |-> value, record |-> NoRecord]
ReturnedRecord(record) == [ok |-> TRUE, value |-> "", record |-> record]

DecryptionFailed == "Decryption failed - incorrect password or corrupted data"

\* null, undefined and '' are falsy
Falsy(x) == x = "" \/ x = NULL

\* encryptData reaches crypto.getRandomValues: its argument checks pass and
\* the key imports
DrawsNonce(plaintext, encryptionKey) ==
    ~Falsy(plaintext) /\ ~Falsy(encryptionKey) /\ base64ToBytes(encryptionKey) # BadBase64

encryptData_fixedIv(plaintext, encryptionKey, drawn) ==
    IF Falsy(plaintext) THEN Thrown("Plaintext data is required")
    ELSE IF Falsy(encryptionKey) THEN Thrown("Encryption key is required")
    ELSE IF base64ToBytes(encryptionKey) = BadBase64 THEN Thrown("Failed to encrypt data")
    ELSE LET keyBytes == base64ToBytes(encryptionKey)
             iv == Nonces[1]
             plaintextBytes == TextEncoderEncode(plaintext)
         IN  ReturnedRecord([encryptedData |-> bytesToBase64(gcmCiphertext(plaintextBytes, keyBytes, iv)),
                             iv |-> bytesToBase64(iv),
                             authTag |-> bytesToBase64(gcmTag(plaintextBytes, keyBytes, iv))])

\* encryptData(plaintext, encryptionKey), the random source having handed out
\* `drawn` nonces before
encryptData(plaintext, encryptionKey, drawn) ==
    IF Falsy(plaintext) THEN Thrown("Plaintext data is required")
    ELSE IF Falsy(encryptionKey) THEN Thrown("Encryption key is required")
    ELSE IF base64ToBytes(encryptionKey) = BadBase64 THEN Thrown("Failed to encrypt data")
    ELSE LET keyBytes == base64ToBytes(encryptionKey)
             iv == getRandomValues(drawn)
             plaintextBytes == TextEncoderEncode(plaintext)
         IN  ReturnedRecord([encryptedData |-> bytesToBase64(gcmCiphertext(plaintextBytes, keyBytes, iv)),
                             iv |-> bytesToBase64(iv),
                             authTag |-> bytesToBase64(gcmTag(plaintextBytes, keyBytes, iv))])

\* decryptData(encrypted, encryptionKey): the two checks throw their own
\* errors; everything inside the try block ends in the one failure message
decryptData(encrypted, encryptionKey) ==
    IF Falsy(encrypted.encryptedData) \/ Falsy(encrypted.iv) \/ Falsy(encrypted.authTag)
    THEN Thrown("Invalid encrypted data structure")
    ELSE IF Falsy(encryptionKey) THEN Thrown("Encryption key is required")
    ELSE LET keyBytes == base64ToBytes(encryptionKey)
             ciphertext == base64ToBytes(encrypted.encryptedData)
             iv == base64ToBytes(encrypted.iv)
             authTag == base64ToBytes(encrypted.authTag)
         IN  IF BadBase64 \in {keyBytes, ciphertext, iv, authTag} THEN Thrown(DecryptionFailed)
             ELSE IF ~gcmDecrypt(ciphertext, authTag, keyBytes, iv).ok THEN Thrown(DecryptionFailed)
             ELSE Returned(TextDecoderDecode(gcmDecrypt(ciphertext, authTag, keyBytes, iv).value))

\* encryptObject(obj, encryptionKey)
encryptObject(obj, encryptionKey, drawn) == encryptData(JSONstringify(obj), encryptionKey, drawn)

\* decryptObject(encrypted, encryptionKey): JSON.parse of what decryptData returns
decryptObject(encrypted, encryptionKey) ==
    LET decrypted == decryptData(encrypted, encryptionKey)
    IN  IF ~decrypted.ok THEN decrypted
        ELSE IF JSONparse(decrypted.value).ok THEN Returned(JSONparse(decrypted.value).value)
        ELSE Thrown(JSONparse(decrypted.value).value)

\* arguments deriveEncryptionKey is called with: the passwords a user may type,
\* the empty password, passwords of 7 and of 8 characters; an account id or ''
MasterPasswords == Passwords \cup {"", "1234567", "12345678"}
UserIds == Accounts \cup {""}

DerivationFailed == "Failed to derive encryption key"

deriveEncryptionKey_validatesInTry(masterPassword, userId, primitiveThrows) ==
    IF DeriveInputError(masterPassword, userId) # NULL \/ primitiveThrows
    THEN Thrown(DerivationFailed)
    ELSE Returned(pbkdf2Sha256(masterPassword, userId))

\* deriveEncryptionKey(masterPassword, userId): the argument checks throw their
\* own errors before the try block; whatever the primitive throws inside it is
\* replaced by the one derivation failure
deriveEncryptionKey(masterPassword, userId, primitiveThrows) ==
    IF DeriveInputError(masterPassword, userId) # NULL
    THEN Thrown(DeriveInputError(masterPassword, userId))
    ELSE IF primitiveThrows THEN Thrown(DerivationFailed)
    ELSE Returned(pbkdf2Sha256(masterPassword, userId))

\* no call of the cipher made yet
NoCipherCall == [op |-> "none", plaintext |-> "", key |-> NULL, record |-> NoRecord,
                 out |-> Returned("")]

----------------------------------------------------------------------------
(* The vault service and the vault stores: values *)

VaultIds == {"v1"}

\* items a vault may hold
MaxItems == 2

ItemIdOf == <<"i1", "i2", "i3">>

ItemIds == {ItemIdOf[n] : n \in 1..MaxItems}

\* vault and item calls that may be in flight at once
MaxItemCalls == 2

ItemProcs == 1..MaxItemCalls

\* the vault service holds one vault of the registered account and no items
InitialServer == [vaults |-> VaultIds, items |-> [i \in ItemIds |-> NoRecord]]

\* useVaultStore: vaults: [], isLoading: false, error: null
InitialVaultStore == [vaults |-> {}, isLoading |-> FALSE, error |-> NULL]

\* useVaultItemStore: items: [], decryptedItems: new Map(), isLoading: false, error: null
InitialItemStore ==
    [items |-> [i \in ItemIds |-> NoRecord], decryptedItems |-> [i \in ItemIds |-> NULL],
     isLoading |-> FALSE, error |-> NULL]

\* a slot with no call in flight; `settled` tells how the call that was there
\* last ended: "resolved", or the message of the Error it threw
NoItemCall == [op |-> "idle", item |-> NULL, key |-> NULL, data |-> NULL, record |-> NoRecord,
               settled |-> "-"]

ItemCall(op, item, key, data, record) ==
    [op |-> op, item |-> item, key |-> key, data |-> data, record |-> record, settled |-> "-"]

Settled(outcome) == [NoItemCall EXCEPT !.settled = outcome]

FreeItemSlot(q) == itemCalls[q].op = "idle" /\ \A r \in ItemProcs : r < q => itemCalls[r].op # "idle"

DataInit ==
    /\ random = 0
    /\ issuedIvs = <<>>
    /\ cipher = NoCipherCall
    /\ server = InitialServer
    /\ vaultStore = InitialVaultStore
    /\ itemStore = InitialItemStore
    /\ itemCalls = [q \in ItemProcs |-> NoItemCall]

----------------------------------------------------------------------------
(* The API client and the clipboard: values *)

\* requests made through apiClient
MaxRequests == 2

Requests == 1..MaxRequests

\* a request not made yet.  `retry` is originalRequest._retry, `authorization`
\* the token of its Authorization header; `refreshes`, `replays` and `steps`
\* count the refresh requests posted for it, the times it was sent again and
\* the steps the interceptors took for it.
NoApiRequest ==
    [phase |-> "unsent", retry |-> FALSE, authorization |-> NULL, token |-> NULL,
     refreshes |-> 0, replays |-> 0, steps |-> 0, error |-> NULL]

\* the tokens the refresh endpoint answers with for a refresh token
NewAccessTokenOf(refreshToken) == "at+" \o refreshToken
NewRefreshTokenOf(refreshToken) == refreshToken \o "+"

CLIPBOARD_CLEAR_TIMEOUT == 60000

\* clock readings: the clock advances half a timeout at a time
MaxTicks == 4

\* copyToClipboard calls made
MaxTimers == 2

TimerIds == 1..MaxTimers

\* texts copied from the item screen
ClipTexts == {"pw1", "pw2"}

\* no copyToClipboard call yet.  `tracked` is membership in activeTimers,
\* `seen` what getStringAsync returned to the timer's callback.
NoTimer == [state |-> "none", text |-> "", autoClear |-> FALSE, copiedAt |-> 0, due |-> 0,
            tracked |-> FALSE, seen |-> NULL]

ServiceInit ==
    /\ api = [r \in Requests |-> NoApiRequest]
    /\ clipboard = [content |-> "", timers |-> [t \in TimerIds |-> NoTimer], now |-> 0]

----------------------------------------------------------------------------
(* Call slots *)

Idle == [op |-> "idle", pc |-> "-", pw |-> NULL, uid |-> NULL, caller |-> "-",
         acc |-> NULL, preLock |-> FALSE]

Call(op, pc, pw, uid, caller) ==
    [op |-> op, pc |-> pc, pw |-> pw, uid |-> uid, caller |-> caller,
     acc |-> NULL, preLock |-> FALSE]

\* a new call takes the lowest free slot
FreeSlot(p) == calls[p].op = "idle" /\ \A q \in Procs : q < p => calls[q].op # "idle"

KeyInstalling(c) == c.op \in {"login", "register", "unlockApp"}

\* Bookkeeping for "was in flight when the lock or logout returned": marks the
\* key-installing calls in flight in cs.
MarkInFlight(cs) ==
    [q \in Procs |-> IF KeyInstalling(cs[q]) THEN [cs[q] EXCEPT !.preLock = TRUE] ELSE cs[q]]

----------------------------------------------------------------------------
(* Initial state: a fresh install, started; RootLayout has mounted and its  *)
(* effects have run: loadSession() is in flight, the AppState listener is   *)
(* registered with the first render's values, and the navigation guard has  *)
(* sent the unauthenticated user to the login screen.                       *)

InitialAuth ==
    [user |-> NULL, accessToken |-> NULL, refreshToken |-> NULL,
     encryptionKey |-> NULL, isAuthenticated |-> FALSE, isLoading |-> FALSE,
     error |-> NULL]

Started(a) == [a EXCEPT !.isLoading = TRUE]

StartedCalls == [p \in Procs |-> IF p = 1 THEN Call("loadSession", "readAccess", NULL, NULL, "-") ELSE Idle]

Init ==
    /\ auth = Started(InitialAuth)
    /\ secureStore = [k \in STORAGE_KEYS |-> NULL]
    /\ calls = StartedCalls
    /\ serverPw = [u \in Accounts |-> IF u = "u2" THEN "Passw0rd#2" ELSE NULL]
    /\ wire = NoRequest
    /\ appState = "active"
    /\ listener = [isAuthenticated |-> FALSE, encryptionKey |-> FALSE]
    /\ route = "login"
    /\ unlockScreen = "unmounted"
    /\ DataInit
    /\ ServiceInit

----------------------------------------------------------------------------
(* Rendering: RootLayout and the screens *)

\* RootLayout renders <Loading/> instead of <Slot/> while isLoading, and the
\* unlock screen exists only on its route: otherwise the instance is gone.
Shown(s, r, a) == IF r = "unlock" /\ ~a.isLoading THEN s ELSE "unmounted"

\* the navigation guard effect of RootLayout: the route it leaves the app on
GuardTarget ==
    IF auth.isLoading THEN route
    ELSE IF ~auth.isAuthenticated /\ route \notin {"login", "unlock"} THEN "login"
    ELSE IF auth.isAuthenticated /\ auth.encryptionKey = NULL /\ route # "unlock" THEN "unlock"
    ELSE IF auth.isAuthenticated /\ auth.encryptionKey # NULL /\ route # "app" THEN "app"
    ELSE route

\* what the AppState listener effect captures when it (re-)registers
Captured == [isAuthenticated |-> auth.isAuthenticated,
             encryptionKey |-> auth.encryptionKey # NULL]

MountedUnlock == IF GuardTarget = "unlock" /\ ~auth.isLoading
                 THEN (IF unlockScreen = "unmounted" THEN "checking" ELSE unlockScreen)
                 ELSE "unmounted"

\* React commits a render and runs the effects whose dependencies changed:
\* the listener is re-registered, the guard redirects, a new screen mounts.
Render ==
    /\ listener # Captured \/ route # GuardTarget \/ unlockScreen # MountedUnlock
    /\ listener' = Captured
    /\ route' = GuardTarget
    /\ unlockScreen' = MountedUnlock
    /\ UNCHANGED <<auth, secureStore, calls, serverPw, wire, appState, dataVars, serviceVars>>

\* a user gesture is made on a screen that is displayed and settled
UiReady ==
    /\ appState = "active"
    /\ ~auth.isLoading
    /\ listener = Captured /\ route = GuardTarget /\ unlockScreen = MountedUnlock

\* the store changes to a; what is rendered follows
Commit(a) ==
    /\ auth' = a
    /\ unlockScreen' = Shown(unlockScreen, route, a)

----------------------------------------------------------------------------
(* useAuthStore: the state updates of its actions *)

setLoading(a) == [a EXCEPT !.isLoading = TRUE, !.error = NULL]

setFailed_dropsSession(a, message) ==
    [a EXCEPT !.error = message, !.isLoading = FALSE, !.isAuthenticated = FALSE]

setFailed(a, message) == [a EXCEPT !.error = message, !.isLoading = FALSE]

\* login / register: set({user, accessToken, refreshToken, encryptionKey, ...})
setSession(a, userId, key) ==
    [a EXCEPT !.user = userId, !.accessToken = AccessTokenOf(userId),
              !.refreshToken = RefreshTokenOf(userId), !.encryptionKey = key,
              !.isAuthenticated = TRUE, !.isLoading = FALSE]

\* logout: set({user: null, ..., encryptionKey: null, isAuthenticated: false, error: null})
setLoggedOut(a) ==
    [a EXCEPT !.user = NULL, !.accessToken = NULL, !.refreshToken = NULL,
              !.encryptionKey = NULL, !.isAuthenticated = FALSE, !.error = NULL]

setLoaded_eitherToken(a, accessToken, refreshToken) ==
    IF accessToken # NULL \/ refreshToken # NULL
    THEN [a EXCEPT !.accessToken = accessToken, !.refreshToken = refreshToken,
                   !.isAuthenticated = TRUE, !.isLoading = FALSE]
    ELSE [a EXCEPT !.isLoading = FALSE]

\* loadSession: the update after both reads
setLoaded(a, accessToken, refreshToken) ==
    IF accessToken # NULL /\ refreshToken # NULL
    THEN [a EXCEPT !.accessToken = accessToken, !.refreshToken = refreshToken,
                   !.isAuthenticated = TRUE, !.isLoading = FALSE]
    ELSE [a EXCEPT !.isLoading = FALSE]

lockApp_dropsTokens(a) == [a EXCEPT !.encryptionKey = NULL, !.accessToken = NULL, !.refreshToken = NULL]

lockApp_keepsKey(a) == a

\* lockApp: set({encryptionKey: null})
lockApp(a) == [a EXCEPT !.encryptionKey = NULL]

\* unlockApp: set({encryptionKey, isLoading: false})
setUnlocked(a, key) == [a EXCEPT !.encryptionKey = key, !.isLoading = FALSE]

BiometricSecret_savesKey(password, key) == key

\* the value UnlockScreen.handleUnlock saves for biometric unlock
BiometricSecret(password, key) == password

UnlockCaller_ungated(biometricEnabled) == "handleUnlock+biometric"

\* handleUnlock's `if (biometricEnabled)`, as the closure saw it
UnlockCaller(biometricEnabled) ==
    IF biometricEnabled = "on" THEN "handleUnlock+biometric" ELSE "handleUnlock"

\* saveTokens / clearTokens, one SecureStore call at a time
setItem(store, k, v) == [store EXCEPT ![k] = v]
deleteItem(store, k) == [store EXCEPT ![k] = NULL]

----------------------------------------------------------------------------
(* login and register *)

\* LoginScreen.handleLogin -> useAuthStore.login: up to the request being sent
LoginStart(p, email, password) ==
    /\ UiReady /\ route = "login" /\ FreeSlot(p)
    /\ Commit(setLoading(auth))
    /\ wire' = LoginRequest(email, password)
    /\ calls' = [calls EXCEPT ![p] = Call("login", "post", password, email, "-")]
    /\ UNCHANGED <<secureStore, serverPw, appState, listener, route, dataVars, serviceVars>>

\* RegisterScreen.handleRegister -> useAuthStore.register
RegisterStart(p, email, password) ==
    /\ UiReady /\ route = "login" /\ FreeSlot(p)
    /\ isStrongPassword(password)
    /\ Commit(setLoading(auth))
    /\ wire' = RegisterRequest(email, password)
    /\ calls' = [calls EXCEPT ![p] = Call("register", "post", password, email, "-")]
    /\ UNCHANGED <<secureStore, serverPw, appState, listener, route, dataVars, serviceVars>>

\* the authentication service's answer to a login or register request
RemoteOutcomes(c) ==
    {"network"} \cup
    (IF c.op = "login"
     THEN (IF serverPw[c.uid] = c.pw THEN {"ok"} ELSE {"rejected"})
     ELSE (IF serverPw[c.uid] = NULL THEN {"ok"} ELSE {"rejected"}))

\* AuthService.login / register after the post: on success the first write of
\* saveTokens; on failure the store action's catch
AuthResponse(p) ==
    /\ calls[p].op \in {"login", "register"} /\ calls[p].pc = "post"
    /\ \E outcome \in RemoteOutcomes(calls[p]) :
         IF outcome = "ok"
         THEN /\ serverPw' = [serverPw EXCEPT ![calls[p].uid] = calls[p].pw]
              /\ secureStore' = setItem(secureStore, ACCESS_TOKEN, AccessTokenOf(calls[p].uid))
              /\ calls' = [calls EXCEPT ![p].pc = "saveRefresh"]
              /\ UNCHANGED <<auth, unlockScreen>>
         ELSE /\ Commit(setFailed(auth, handleApiError(outcome)))
              /\ calls' = [calls EXCEPT ![p] = Idle]
              /\ UNCHANGED <<secureStore, serverPw>>
    /\ UNCHANGED <<wire, appState, listener, route, dataVars, serviceVars>>

\* the second write of AuthService's saveTokens, then deriveEncryptionKey is
\* entered: its argument checks throw at once, otherwise PBKDF2 runs
AuthSaveRefresh(p) ==
    /\ calls[p].op \in {"login", "register"} /\ calls[p].pc = "saveRefresh"
    /\ secureStore' = setItem(secureStore, REFRESH_TOKEN, RefreshTokenOf(calls[p].uid))
    /\ IF DeriveInputError(calls[p].pw, calls[p].uid) # NULL
       THEN /\ Commit(setFailed(auth, DeriveInputError(calls[p].pw, calls[p].uid)))
            /\ calls' = [calls EXCEPT ![p] = Idle]
       ELSE /\ calls' = [calls EXCEPT ![p].pc = "derive"]
            /\ UNCHANGED <<auth, unlockScreen>>
    /\ UNCHANGED <<serverPw, wire, appState, listener, route, dataVars, serviceVars>>

\* PBKDF2 returns in login: the session and the key are installed
LoginDerived(p) ==
    /\ calls[p].op = "login" /\ calls[p].pc = "derive"
    /\ \E ok \in BOOLEAN :
         IF ok
         THEN Commit(setSession(auth, calls[p].uid, pbkdf2Sha256(calls[p].pw, calls[p].uid)))
         ELSE Commit(setFailed(auth, "Failed to derive encryption key"))
    /\ calls' = [calls EXCEPT ![p] = Idle]
    /\ UNCHANGED <<secureStore, serverPw, wire, appState, listener, route, dataVars, serviceVars>>

\* PBKDF2 returns in register: the store's own saveTokens follows, first write
RegisterDerived(p) ==
    /\ calls[p].op = "register" /\ calls[p].pc = "derive"
    /\ \E ok \in BOOLEAN :
         IF ok
         THEN /\ secureStore' = setItem(secureStore, ACCESS_TOKEN, AccessTokenOf(calls[p].uid))
              /\ calls' = [calls EXCEPT ![p].pc = "storeSaveRefresh"]
              /\ UNCHANGED <<auth, unlockScreen>>
         ELSE /\ Commit(setFailed(auth, "Failed to derive encryption key"))
              /\ calls' = [calls EXCEPT ![p] = Idle]
              /\ UNCHANGED secureStore
    /\ UNCHANGED <<serverPw, wire, appState, listener, route, dataVars, serviceVars>>

\* the second write of the store's saveTokens in register, then the update
RegisterSaved(p) ==
    /\ calls[p].op = "register" /\ calls[p].pc = "storeSaveRefresh"
    /\ secureStore' = setItem(secureStore, REFRESH_TOKEN, RefreshTokenOf(calls[p].uid))
    /\ Commit(setSession(auth, calls[p].uid, pbkdf2Sha256(calls[p].pw, calls[p].uid)))
    /\ calls' = [calls EXCEPT ![p] = Idle]
    /\ UNCHANGED <<serverPw, wire, appState, listener, route, dataVars, serviceVars>>

----------------------------------------------------------------------------
(* unlockApp and the unlock screen *)

\* unlockApp(masterPassword): the error it throws before its first await, or
\* NULL when it goes on to derive the key.  With no user it throws 'No active
\* session'; deriveEncryptionKey's argument checks throw next.
UnlockRejection(a, masterPassword) ==
    IF a.user = NULL THEN "No active session"
    ELSE DeriveInputError(masterPassword, a.user)

UnlockEnter_saltsWithToken(p, a, masterPassword, caller) ==
    IF a.user = NULL
    THEN /\ Commit(a)
         /\ UNCHANGED calls
    ELSE IF UnlockRejection(a, masterPassword) # NULL
    THEN /\ Commit(setFailed(setLoading(a), UnlockRejection(a, masterPassword)))
         /\ UNCHANGED calls
    ELSE /\ Commit(setLoading(a))
         /\ calls' = [calls EXCEPT ![p] = Call("unlockApp", "derive", masterPassword, a.accessToken, caller)]

\* unlockApp(masterPassword) up to its first await, entered from `caller`.
\* 'No active session' is thrown before the store is touched; an argument
\* rejected by deriveEncryptionKey ends in the catch branch at once.
UnlockEnter(p, a, masterPassword, caller) ==
    IF a.user = NULL
    THEN /\ Commit(a)
         /\ UNCHANGED calls
    ELSE IF UnlockRejection(a, masterPassword) # NULL
    THEN /\ Commit(setFailed(setLoading(a), UnlockRejection(a, masterPassword)))
         /\ UNCHANGED calls
    ELSE /\ Commit(setLoading(a))
         /\ calls' = [calls EXCEPT ![p] = Call("unlockApp", "derive", masterPassword, a.user, caller)]

\* UnlockScreen.handleUnlock: clearError(), then unlockApp(password); the
\* handler's closure holds the biometricEnabled of the render it was made in
HandleUnlock(p, password) ==
    /\ UiReady /\ route = "unlock" /\ unlockScreen # "unmounted" /\ FreeSlot(p)
    /\ UnlockEnter(p, [auth EXCEPT !.error = NULL], password, UnlockCaller(unlockScreen))
    /\ UNCHANGED <<secureStore, serverPw, wire, appState, listener, route, dataVars, serviceVars>>

\* UnlockScreen.handleBiometricUnlock after a successful prompt: the stored
\* password, when there is one, goes to unlockApp
HandleBiometricUnlock(p) ==
    /\ appState = "active" /\ unlockScreen = "on" /\ FreeSlot(p)
    /\ secureStore[BIOMETRIC_PASSWORD] # NULL
    /\ UnlockEnter(p, auth, secureStore[BIOMETRIC_PASSWORD], "handleBiometricUnlock")
    /\ UNCHANGED <<secureStore, serverPw, wire, appState, listener, route, dataVars, serviceVars>>

\* PBKDF2 returns in unlockApp: the key is installed with no verification;
\* handleUnlock then continues and saves the password when its closure saw
\* biometric unlock enabled
UnlockDerivedOk(p) ==
    /\ calls[p].op = "unlockApp" /\ calls[p].pc = "derive"
    /\ Commit(setUnlocked(auth, pbkdf2Sha256(calls[p].pw, calls[p].uid)))
    /\ secureStore' =
          IF calls[p].caller = "handleUnlock+biometric"
          THEN setItem(secureStore, BIOMETRIC_PASSWORD,
                       BiometricSecret(calls[p].pw, pbkdf2Sha256(calls[p].pw, calls[p].uid)))
          ELSE secureStore
    /\ calls' = [calls EXCEPT ![p] = Idle]
    /\ UNCHANGED <<serverPw, wire, appState, listener, route, dataVars, serviceVars>>

\* the primitive fails in unlockApp: the catch branch
UnlockDerivedFailed(p) ==
    /\ calls[p].op = "unlockApp" /\ calls[p].pc = "derive"
    /\ Commit(setFailed(auth, "Failed to derive encryption key"))
    /\ calls' = [calls EXCEPT ![p] = Idle]
    /\ UNCHANGED <<secureStore, serverPw, wire, appState, listener, route, dataVars, serviceVars>>

\* UnlockScreen.checkBiometric, run on mount: reads the opt-in when the device
\* has enrolled biometric hardware
CheckBiometric ==
    /\ unlockScreen = "checking"
    /\ \E available \in BOOLEAN :
         unlockScreen' = IF available /\ secureStore[BIOMETRIC_ENABLED] = "true"
                         THEN "on" ELSE "off"
    /\ UNCHANGED <<auth, secureStore, calls, serverPw, wire, appState, listener, route, dataVars, serviceVars>>

\* SettingsScreen.handleBiometricToggle, with the prompt succeeding when the
\* switch is turned on
HandleBiometricToggle(value) ==
    /\ UiReady /\ route = "app"
    /\ secureStore' = setItem(secureStore, BIOMETRIC_ENABLED, IF value THEN "true" ELSE "false")
    /\ UNCHANGED <<auth, calls, serverPw, wire, appState, listener, route, unlockScreen, dataVars, serviceVars>>

----------------------------------------------------------------------------
(* logout *)

\* the Logout button of the unlock screen or of the settings screen:
\* useAuthStore.logout -> AuthService.logout posts the request
LogoutStart(p) ==
    /\ UiReady /\ route \in {"unlock", "app"} /\ FreeSlot(p)
    /\ wire' = LogoutRequest
    /\ calls' = [calls EXCEPT ![p] = Call("logout", "post", NULL, NULL,
                                          IF route = "app" THEN "settings" ELSE "unlock")]
    /\ UNCHANGED <<auth, secureStore, serverPw, appState, listener, route, unlockScreen, dataVars, serviceVars>>

\* the next SecureStore.deleteItemAsync of the two clearTokens calls:
\* AuthService.logout's (in its finally, whatever the post did) and the
\* store's.  A delete may throw: in the service that error is swallowed by
\* the store's catch, in the store it rejects logout() before the update.
LogoutDelete(p) ==
    /\ calls[p].op = "logout"
    /\ calls[p].pc \in {"post", "svcDeleteRefresh", "storeDeleteAccess"}
    /\ \E ok \in BOOLEAN :
         IF ok
         THEN /\ secureStore' = deleteItem(secureStore,
                                   IF calls[p].pc = "svcDeleteRefresh" THEN REFRESH_TOKEN ELSE ACCESS_TOKEN)
              /\ calls' = [calls EXCEPT ![p].pc =
                              IF calls[p].pc = "post" THEN "svcDeleteRefresh"
                              ELSE IF calls[p].pc = "svcDeleteRefresh" THEN "storeDeleteAccess"
                              ELSE "storeDeleteRefresh"]
         ELSE /\ UNCHANGED secureStore
              /\ calls' = [calls EXCEPT ![p] =
                              IF calls[p].pc = "storeDeleteAccess" THEN Idle
                              ELSE [calls[p] EXCEPT !.pc = "storeDeleteAccess"]]
    /\ UNCHANGED <<auth, serverPw, wire, appState, listener, route, unlockScreen, dataVars, serviceVars>>

\* the store's last delete and the update that clears the state: logout()
\* resolves, and the settings screen's handler goes on to replace the route
LogoutDone(p) ==
    /\ calls[p].op = "logout" /\ calls[p].pc = "storeDeleteRefresh"
    /\ secureStore' = deleteItem(secureStore, REFRESH_TOKEN)
    /\ auth' = setLoggedOut(auth)
    /\ route' = IF calls[p].caller = "settings" THEN "login" ELSE route
    /\ unlockScreen' = Shown(unlockScreen, route', auth')
    /\ calls' = MarkInFlight([calls EXCEPT ![p] = Idle])
    /\ UNCHANGED <<serverPw, wire, appState, listener, dataVars, serviceVars>>

\* the store's last delete throws: logout() rejects and the update is skipped
LogoutRejected(p) ==
    /\ calls[p].op = "logout" /\ calls[p].pc = "storeDeleteRefresh"
    /\ calls' = [calls EXCEPT ![p] = Idle]
    /\ UNCHANGED <<auth, secureStore, serverPw, wire, appState, listener, route, unlockScreen, dataVars, serviceVars>>

----------------------------------------------------------------------------
(* loadSession and process start *)

\* loadSession: the first SecureStore.getItemAsync returns
LoadReadAccess(p) ==
    /\ calls[p].op = "loadSession" /\ calls[p].pc = "readAccess"
    /\ calls' = [calls EXCEPT ![p].pc = "readRefresh", ![p].acc = secureStore[ACCESS_TOKEN]]
    /\ UNCHANGED <<auth, secureStore, serverPw, wire, appState, listener, route, unlockScreen, dataVars, serviceVars>>

\* loadSession: the second read returns, then the update
LoadSessionDone(p) ==
    /\ calls[p].op = "loadSession" /\ calls[p].pc = "readRefresh"
    /\ Commit(setLoaded(auth, calls[p].acc, secureStore[REFRESH_TOKEN]))
    /\ calls' = [calls EXCEPT ![p] = Idle]
    /\ UNCHANGED <<secureStore, serverPw, wire, appState, listener, route, dataVars, serviceVars>>

\* loadSession: a read throws; the catch only ends the loading state
LoadSessionFailed(p) ==
    /\ calls[p].op = "loadSession"
    /\ Commit([auth EXCEPT !.isLoading = FALSE])
    /\ calls' = [calls EXCEPT ![p] = Idle]
    /\ UNCHANGED <<secureStore, serverPw, wire, appState, listener, route, dataVars, serviceVars>>

\* The process is killed and started again: memory is lost, the secure store
\* and the server are not; RootLayout mounts and calls loadSession().
AppStart ==
    /\ auth' = Started(InitialAuth)
    /\ calls' = StartedCalls
    /\ wire' = NoRequest
    /\ appState' = "active"
    /\ listener' = [isAuthenticated |-> FALSE, encryptionKey |-> FALSE]
    /\ route' = "login"
    /\ unlockScreen' = "unmounted"
    /\ vaultStore' = InitialVaultStore
    /\ itemStore' = InitialItemStore
    /\ itemCalls' = [q \in ItemProcs |-> NoItemCall]
    /\ UNCHANGED <<secureStore, serverPw, random, issuedIvs, cipher, server, serviceVars>>

----------------------------------------------------------------------------
(* application state *)

\* AppState 'change' to 'background': the registered listener runs with the
\* values it captured, and calls lockApp() when those say unlocked
Background ==
    /\ appState = "active"
    /\ appState' = "background"
    /\ IF listener.isAuthenticated /\ listener.encryptionKey
       THEN /\ Commit(lockApp(auth))
            /\ calls' = MarkInFlight(calls)
       ELSE UNCHANGED <<auth, unlockScreen, calls>>
    /\ UNCHANGED <<secureStore, serverPw, wire, listener, route, dataVars, serviceVars>>

\* AppState 'change' to 'active': the listener does nothing
Foreground ==
    /\ appState = "background"
    /\ appState' = "active"
    /\ UNCHANGED <<auth, secureStore, calls, serverPw, wire, listener, route, unlockScreen, dataVars, serviceVars>>

----------------------------------------------------------------------------

Next ==
    \/ Render
    \/ \E p \in Procs, u \in Accounts, pw \in Passwords : LoginStart(p, u, pw)
    \/ \E p \in Procs, u \in Accounts, pw \in Passwords : RegisterStart(p, u, pw)
    \/ \E p \in Procs : AuthResponse(p)
    \/ \E p \in Procs : AuthSaveRefresh(p)
    \/ \E p \in Procs : LoginDerived(p)
    \/ \E p \in Procs : RegisterDerived(p)
    \/ \E p \in Procs : RegisterSaved(p)
    \/ \E p \in Procs, pw \in Passwords : HandleUnlock(p, pw)
    \/ \E p \in Procs : HandleBiometricUnlock(p)
    \/ \E p \in Procs : UnlockDerivedOk(p)
    \/ \E p \in Procs : UnlockDerivedFailed(p)
    \/ CheckBiometric
    \/ \E value \in BOOLEAN : HandleBiometricToggle(value)
    \/ \E p \in Procs : LogoutStart(p)
    \/ \E p \in Procs : LogoutDelete(p)
    \/ \E p \in Procs : LogoutDone(p)
    \/ \E p \in Procs : LogoutRejected(p)
    \/ \E p \in Procs : LoadReadAccess(p)
    \/ \E p \in Procs : LoadSessionDone(p)
    \/ \E p \in Procs : LoadSessionFailed(p)
    \/ AppStart
    \/ Background
    \/ Foreground

Spec == Init /\ [][Next]_vars

----------------------------------------------------------------------------
(* Direct use of the cipher: a caller encrypts a string, the record may be  *)
(* altered in storage or in transit, and a caller decrypts it.              *)

\* encryptData(plaintext, encryptionKey) is called
EncryptData(plaintext, encryptionKey) ==
    /\ random < MaxNonces
    /\ LET out == encryptData(plaintext, encryptionKey, random)
       IN  /\ cipher' = [op |-> "encryptData", plaintext |-> plaintext, key |-> encryptionKey,
                         record |-> out.record, out |-> out]
           /\ random' = IF DrawsNonce(plaintext, encryptionKey) THEN random + 1 ELSE random
           /\ issuedIvs' = IF out.ok THEN Append(issuedIvs, out.record.iv) ELSE issuedIvs
    /\ UNCHANGED <<auth, secureStore, sessionVars, serviceVars, server, vaultStore, itemStore, itemCalls>>

\* ways the stored record is altered: a bit of the ciphertext or of the tag
\* flipped, the iv replaced by text that is not base64, a field dropped
Alterations == {"flipCiphertext", "flipTag", "malformedIv", "dropTag"}

Altered(record, how) ==
    IF how = "flipCiphertext"
    THEN [record EXCEPT !.encryptedData = bytesToBase64(FlipBit(base64ToBytes(record.encryptedData)))]
    ELSE IF how = "flipTag"
    THEN [record EXCEPT !.authTag = bytesToBase64(FlipBit(base64ToBytes(record.authTag)))]
    ELSE IF how = "malformedIv"
    THEN [record EXCEPT !.iv = "!not base64!"]
    ELSE [record EXCEPT !.authTag = ""]

\* the record encryptData returned is altered before it is decrypted
AlterRecord(how) ==
    /\ cipher.op = "encryptData" /\ cipher.out.ok /\ cipher.record = cipher.out.record
    /\ cipher' = [cipher EXCEPT !.record = Altered(cipher.record, how)]
    /\ UNCHANGED <<auth, secureStore, sessionVars, serviceVars, random, issuedIvs, server, vaultStore,
                   itemStore, itemCalls>>

\* decryptData(record, encryptionKey) is called on the record at hand
DecryptData(encryptionKey) ==
    /\ cipher.op # "none" /\ cipher.record # NoRecord
    /\ cipher' = [cipher EXCEPT !.op = "decryptData",
                                !.out = decryptData(cipher.record, encryptionKey)]
    /\ UNCHANGED <<auth, secureStore, sessionVars, serviceVars, random, issuedIvs, server, vaultStore,
                   itemStore, itemCalls>>

\* decryptObject(record, encryptionKey) is called on the record at hand
DecryptObject(encryptionKey) ==
    /\ cipher.op # "none" /\ cipher.record # NoRecord
    /\ cipher' = [cipher EXCEPT !.op = "decryptObject",
                                !.out = decryptObject(cipher.record, encryptionKey)]
    /\ UNCHANGED <<auth, secureStore, sessionVars, serviceVars, random, issuedIvs, server, vaultStore,
                   itemStore, itemCalls>>

\* deriveEncryptionKey(masterPassword, userId) is called; crypto.subtle either
\* derives the bits or throws
DeriveEncryptionKey(masterPassword, userId) ==
    /\ \E primitiveThrows \in BOOLEAN :
          cipher' = [cipher EXCEPT !.op = "deriveEncryptionKey", !.plaintext = masterPassword,
                                   !.key = userId,
                                   !.out = deriveEncryptionKey(masterPassword, userId, primitiveThrows)]
    /\ UNCHANGED <<auth, secureStore, sessionVars, serviceVars, random, issuedIvs, server, vaultStore,
                   itemStore, itemCalls>>

CipherNext ==
    \/ \E plaintext \in Plaintexts, k \in CipherKeys : EncryptData(plaintext, k)
    \/ \E pw \in MasterPasswords, u \in UserIds : DeriveEncryptionKey(pw, u)
    \/ \E how \in Alterations : AlterRecord(how)
    \/ \E k \in CipherKeys : DecryptData(k)
    \/ \E k \in CipherKeys : DecryptObject(k)

CipherSpec == Init /\ [][CipherNext]_vars

----------------------------------------------------------------------------
(* The vault stores and the vault item service, driven by the screens of the *)
(* (app) routes.  An asynchronous store action is held in a slot of           *)
(* itemCalls between its awaits.                                              *)

\* set({ isLoading: true, error: null }) and the catch branches of the stores
storeSetLoading(st) == [st EXCEPT !.isLoading = TRUE, !.error = NULL]
storeSetFailed(st, message) == [st EXCEPT !.error = message, !.isLoading = FALSE]

DecryptItemFailed == "Failed to decrypt item - incorrect password"

\* the message of a service call that failed (handleApiError)
ServiceFailed == "Network error - please check your connection"

\* VaultItemService.decryptVaultItem(item, encryptionKey): the decrypted
\* data, or the one Error its catch throws
decryptVaultItem(item, encryptionKey) ==
    IF decryptObject(item, encryptionKey).ok
    THEN decryptObject(item, encryptionKey)
    ELSE Thrown(DecryptItemFailed)

\* a screen of the (app) group is displayed and takes a gesture or runs an effect
AppScreen == UiReady /\ route = "app"

\* VaultsScreen mount effect or pull to refresh: fetchVaults()
FetchVaultsStart(q) ==
    /\ AppScreen /\ FreeItemSlot(q)
    /\ vaultStore' = storeSetLoading(vaultStore)
    /\ itemCalls' = [itemCalls EXCEPT ![q] = ItemCall("fetchVaults", NULL, NULL, NULL, NoRecord)]
    /\ UNCHANGED <<auth, secureStore, sessionVars, serviceVars, random, issuedIvs, cipher, server, itemStore>>

\* VaultService.getVaults() returns or throws
FetchVaultsDone(q) ==
    /\ itemCalls[q].op = "fetchVaults"
    /\ \E ok \in BOOLEAN :
         IF ok
         THEN /\ vaultStore' = [vaultStore EXCEPT !.vaults = server.vaults, !.isLoading = FALSE]
              /\ itemCalls' = [itemCalls EXCEPT ![q] = Settled("resolved")]
         ELSE /\ vaultStore' = storeSetFailed(vaultStore, ServiceFailed)
              /\ itemCalls' = [itemCalls EXCEPT ![q] = Settled(ServiceFailed)]
    /\ UNCHANGED <<auth, secureStore, sessionVars, serviceVars, random, issuedIvs, cipher, server, itemStore>>

\* VaultItemsScreen mount effect or pull to refresh: fetchItems(vaultId)
FetchItemsStart(q) ==
    /\ AppScreen /\ FreeItemSlot(q)
    /\ itemStore' = storeSetLoading(itemStore)
    /\ itemCalls' = [itemCalls EXCEPT ![q] = ItemCall("fetchItems", NULL, NULL, NULL, NoRecord)]
    /\ UNCHANGED <<auth, secureStore, sessionVars, serviceVars, random, issuedIvs, cipher, server, vaultStore>>

\* VaultItemService.getVaultItems(vaultId) returns or throws
FetchItemsDone(q) ==
    /\ itemCalls[q].op = "fetchItems"
    /\ \E ok \in BOOLEAN :
         IF ok
         THEN /\ itemStore' = [itemStore EXCEPT !.items = server.items, !.isLoading = FALSE]
              /\ itemCalls' = [itemCalls EXCEPT ![q] = Settled("resolved")]
         ELSE /\ itemStore' = storeSetFailed(itemStore, ServiceFailed)
              /\ itemCalls' = [itemCalls EXCEPT ![q] = Settled(ServiceFailed)]
    /\ UNCHANGED <<auth, secureStore, sessionVars, serviceVars, random, issuedIvs, cipher, server, vaultStore>>

\* CreateItemScreen.handleCreateItem with the key of the render: createItem(...)
CreateItemStart(q, data) ==
    /\ AppScreen /\ FreeItemSlot(q)
    /\ auth.encryptionKey # NULL
    /\ itemStore' = storeSetLoading(itemStore)
    /\ itemCalls' = [itemCalls EXCEPT ![q] = ItemCall("createItem", NULL, auth.encryptionKey, data, NoRecord)]
    /\ UNCHANGED <<auth, secureStore, sessionVars, serviceVars, random, issuedIvs, cipher, server, vaultStore>>

\* updateItem(vaultId, itemId, name, data, encryptionKey) for an item of the list
UpdateItemStart(q, itemId, data) ==
    /\ AppScreen /\ FreeItemSlot(q)
    /\ auth.encryptionKey # NULL
    /\ itemStore.items[itemId] # NoRecord
    /\ itemStore' = storeSetLoading(itemStore)
    /\ itemCalls' = [itemCalls EXCEPT ![q] = ItemCall("updateItem", itemId, auth.encryptionKey, data, NoRecord)]
    /\ UNCHANGED <<auth, secureStore, sessionVars, serviceVars, random, issuedIvs, cipher, server, vaultStore>>

\* createVaultItem / updateVaultItemData: encryptObject(data, encryptionKey)
\* returns, and the request goes out
ItemEncrypted(q) ==
    /\ itemCalls[q].op \in {"createItem", "updateItem"} /\ itemCalls[q].record = NoRecord
    /\ random < MaxNonces
    /\ LET out == encryptObject(itemCalls[q].data, itemCalls[q].key, random)
       IN  IF out.ok
           THEN /\ itemCalls' = [itemCalls EXCEPT ![q].record = out.record]
                /\ random' = random + 1
                /\ issuedIvs' = Append(issuedIvs, out.record.iv)
                /\ UNCHANGED itemStore
           ELSE /\ itemStore' = storeSetFailed(itemStore, "An error occurred")
                /\ itemCalls' = [itemCalls EXCEPT ![q] = Settled("An error occurred")]
                /\ UNCHANGED <<random, issuedIvs>>
    /\ UNCHANGED <<auth, secureStore, sessionVars, serviceVars, cipher, server, vaultStore>>

\* the identifier the service gives a new item
FreeItemIds == {i \in ItemIds : server.items[i] = NoRecord}
NewItemId == ItemIdOf[CHOOSE n \in 1..MaxItems :
                        /\ ItemIdOf[n] \in FreeItemIds
                        /\ \A m \in 1..(n - 1) : ItemIdOf[m] \notin FreeItemIds]

\* the service stores the new item and answers, or the request fails
CreateItemDone(q) ==
    /\ itemCalls[q].op = "createItem" /\ itemCalls[q].record # NoRecord
    /\ \E ok \in BOOLEAN :
         IF ok /\ FreeItemIds # {}
         THEN /\ server' = [server EXCEPT !.items[NewItemId] = itemCalls[q].record]
              /\ itemStore' = [itemStore EXCEPT !.items[NewItemId] = itemCalls[q].record,
                                                !.isLoading = FALSE]
              /\ itemCalls' = [itemCalls EXCEPT ![q] = Settled("resolved")]
         ELSE /\ itemStore' = storeSetFailed(itemStore, ServiceFailed)
              /\ itemCalls' = [itemCalls EXCEPT ![q] = Settled(ServiceFailed)]
              /\ UNCHANGED server
    /\ UNCHANGED <<auth, secureStore, sessionVars, serviceVars, random, issuedIvs, cipher, vaultStore>>

updateItemSet_keepsCache(st, itemId, updatedItem) ==
    [st EXCEPT !.items[itemId] = IF @ = NoRecord THEN @ ELSE updatedItem,
               !.isLoading = FALSE]

\* updateItem's set(): the item is replaced in the list where it is there, and
\* its entry removed from the cache
updateItemSet(st, itemId, updatedItem) ==
    [st EXCEPT !.items[itemId] = IF @ = NoRecord THEN @ ELSE updatedItem,
               !.decryptedItems[itemId] = NULL,
               !.isLoading = FALSE]

\* the service replaces the item's payload and answers, or the request fails
UpdateItemDone(q) ==
    /\ itemCalls[q].op = "updateItem" /\ itemCalls[q].record # NoRecord
    /\ \E ok \in BOOLEAN :
         IF ok /\ server.items[itemCalls[q].item] # NoRecord
         THEN /\ server' = [server EXCEPT !.items[itemCalls[q].item] = itemCalls[q].record]
              /\ itemStore' = updateItemSet(itemStore, itemCalls[q].item, itemCalls[q].record)
              /\ itemCalls' = [itemCalls EXCEPT ![q] = Settled("resolved")]
         ELSE /\ itemStore' = storeSetFailed(itemStore, ServiceFailed)
              /\ itemCalls' = [itemCalls EXCEPT ![q] = Settled(ServiceFailed)]
              /\ UNCHANGED server
    /\ UNCHANGED <<auth, secureStore, sessionVars, serviceVars, random, issuedIvs, cipher, vaultStore>>

\* the Delete button of the list or of the detail screen: deleteItem(vaultId, itemId)
DeleteItemStart(q, itemId) ==
    /\ AppScreen /\ FreeItemSlot(q)
    /\ itemStore.items[itemId] # NoRecord
    /\ itemStore' = storeSetLoading(itemStore)
    /\ itemCalls' = [itemCalls EXCEPT ![q] = ItemCall("deleteItem", itemId, NULL, NULL, NoRecord)]
    /\ UNCHANGED <<auth, secureStore, sessionVars, serviceVars, random, issuedIvs, cipher, server, vaultStore>>

\* deleteItem's set(): the item leaves the list and the cache
deleteItemSet(st, itemId) ==
    [st EXCEPT !.items[itemId] = NoRecord, !.decryptedItems[itemId] = NULL, !.isLoading = FALSE]

\* the service deletes the item and answers, or the request fails
DeleteItemDone(q) ==
    /\ itemCalls[q].op = "deleteItem"
    /\ \E ok \in BOOLEAN :
         IF ok
         THEN /\ server' = [server EXCEPT !.items[itemCalls[q].item] = NoRecord]
              /\ itemStore' = deleteItemSet(itemStore, itemCalls[q].item)
              /\ itemCalls' = [itemCalls EXCEPT ![q] = Settled("resolved")]
         ELSE /\ itemStore' = storeSetFailed(itemStore, ServiceFailed)
              /\ itemCalls' = [itemCalls EXCEPT ![q] = Settled(ServiceFailed)]
              /\ UNCHANGED server
    /\ UNCHANGED <<auth, secureStore, sessionVars, serviceVars, random, issuedIvs, cipher, vaultStore>>

\* ItemDetailScreen effect: the item is in the list, not in the cache, and the
\* render has a key: decryptItem(itemId, encryptionKey) finds the item
DecryptItemStart(q, itemId) ==
    /\ AppScreen /\ FreeItemSlot(q)
    /\ auth.encryptionKey # NULL
    /\ itemStore.items[itemId] # NoRecord /\ itemStore.decryptedItems[itemId] = NULL
    /\ itemCalls' = [itemCalls EXCEPT ![q] = ItemCall("decryptItem", itemId, auth.encryptionKey, NULL,
                                                      itemStore.items[itemId])]
    /\ UNCHANGED <<auth, secureStore, sessionVars, serviceVars, random, issuedIvs, cipher, server, vaultStore, itemStore>>

\* decryptVaultItem returns: the data goes into the cache; or it throws and
\* decryptItem rethrows
DecryptItemDone(q) ==
    /\ itemCalls[q].op = "decryptItem"
    /\ LET out == decryptVaultItem(itemCalls[q].record, itemCalls[q].key)
       IN  IF out.ok
           THEN /\ itemStore' = [itemStore EXCEPT !.decryptedItems[itemCalls[q].item] = out.value]
                /\ itemCalls' = [itemCalls EXCEPT ![q] = Settled("resolved")]
           ELSE /\ UNCHANGED itemStore
                /\ itemCalls' = [itemCalls EXCEPT ![q] = Settled(out.value)]
    /\ UNCHANGED <<auth, secureStore, sessionVars, serviceVars, random, issuedIvs, cipher, server, vaultStore>>

\* decryptItem(itemId, encryptionKey) for an item that is not in the list:
\* 'Item not found' is thrown before the try block
DecryptItemNotFound(q, itemId) ==
    /\ AppScreen /\ FreeItemSlot(q)
    /\ auth.encryptionKey # NULL
    /\ itemStore.items[itemId] = NoRecord
    /\ itemCalls' = [itemCalls EXCEPT ![q] = Settled("Item not found")]
    /\ UNCHANGED <<auth, secureStore, sessionVars, serviceVars, random, issuedIvs, cipher, server, vaultStore, itemStore>>

\* the account whose vault is used, and the passwords typed on its unlock screen
VaultAccount == "u2"
UnlockPasswords == {"Passw0rd#2", "Sup3rSecret!"}

\* Signed in as the registered account, with biometric unlock switched on and
\* the password saved by an earlier unlock; the vaults screen is displayed and
\* nothing is in flight.
VaultInit ==
    /\ auth = setSession(InitialAuth, VaultAccount, pbkdf2Sha256("Passw0rd#2", VaultAccount))
    /\ secureStore = [k \in STORAGE_KEYS |->
                        IF k = ACCESS_TOKEN THEN AccessTokenOf(VaultAccount)
                        ELSE IF k = REFRESH_TOKEN THEN RefreshTokenOf(VaultAccount)
                        ELSE IF k = BIOMETRIC_ENABLED THEN "true" ELSE "Passw0rd#2"]
    /\ calls = [p \in Procs |-> Idle]
    /\ serverPw = [u \in Accounts |-> IF u = "u2" THEN "Passw0rd#2" ELSE NULL]
    /\ wire = LoginRequest(VaultAccount, "Passw0rd#2")
    /\ appState = "active"
    /\ listener = [isAuthenticated |-> TRUE, encryptionKey |-> TRUE]
    /\ route = "app"
    /\ unlockScreen = "unmounted"
    /\ DataInit
    /\ ServiceInit

\* VaultSpec runs one store call at a time, and an item is created only in
\* an empty vault
VaultProcs == {1}

VaultNext ==
    \/ Render
    \/ Background
    \/ Foreground
    \/ \E pw \in UnlockPasswords : HandleUnlock(1, pw)
    \/ UnlockDerivedOk(1)
    \/ LogoutStart(1)
    \/ LogoutDelete(1)
    \/ LogoutDone(1)
    \/ \E q \in VaultProcs : FetchVaultsStart(q)
    \/ \E q \in VaultProcs : FetchVaultsDone(q)
    \/ \E q \in VaultProcs : FetchItemsStart(q)
    \/ \E q \in VaultProcs : FetchItemsDone(q)
    \/ \E q \in VaultProcs : FreeItemIds = ItemIds /\ CreateItemStart(q, "p1")
    \/ \E q \in VaultProcs, i \in ItemIds : UpdateItemStart(q, i, "p2")
    \/ \E q \in VaultProcs : ItemEncrypted(q)
    \/ \E q \in VaultProcs : CreateItemDone(q)
    \/ \E q \in VaultProcs : UpdateItemDone(q)
    \/ \E q \in VaultProcs, i \in ItemIds : DeleteItemStart(q, i)
    \/ \E q \in VaultProcs : DeleteItemDone(q)
    \/ \E q \in VaultProcs, i \in ItemIds : DecryptItemStart(q, i)
    \/ \E q \in VaultProcs : DecryptItemDone(q)
    \/ \E q \in VaultProcs, i \in ItemIds : DecryptItemNotFound(q, i)

VaultSpec == VaultInit /\ [][VaultNext]_vars

\* the item store on its own, with the session key resident: two calls may be
\* in flight and the vault may hold two items
ItemNext ==
    \/ \E q \in ItemProcs : FetchItemsStart(q)
    \/ \E q \in ItemProcs : FetchItemsDone(q)
    \/ \E q \in ItemProcs : CreateItemStart(q, "p1")
    \/ \E q \in ItemProcs, i \in ItemIds : UpdateItemStart(q, i, "p2")
    \/ \E q \in ItemProcs : ItemEncrypted(q)
    \/ \E q \in ItemProcs : CreateItemDone(q)
    \/ \E q \in ItemProcs : UpdateItemDone(q)
    \/ \E q \in ItemProcs, i \in ItemIds : DeleteItemStart(q, i)
    \/ \E q \in ItemProcs : DeleteItemDone(q)
    \/ \E q \in ItemProcs, i \in ItemIds : DecryptItemStart(q, i)
    \/ \E q \in ItemProcs : DecryptItemDone(q)
    \/ \E q \in ItemProcs, i \in ItemIds : DecryptItemNotFound(q, i)

ItemSpec == VaultInit /\ [][ItemNext]_vars

----------------------------------------------------------------------------
(* apiClient: the request interceptor and the response interceptor that      *)
(* refreshes the tokens on 401.  Each action is one await of the             *)
(* interceptors resolving or throwing, for one request.                      *)

Stepped(req) == [req EXCEPT !.steps = @ + 1]

markRetry_notMarked(req) == [req EXCEPT !.phase = "readingRefreshToken"]

\* originalRequest._retry = true, then the refresh token is read
markRetry(req) == [req EXCEPT !.retry = TRUE, !.phase = "readingRefreshToken"]

\* the catch of the refresh: clearTokens() starts
refreshFailed(req, refreshError) == [req EXCEPT !.phase = "clearingAccess", !.error = refreshError]

\* Promise.reject(error)
rejected(req, error) == [req EXCEPT !.phase = "rejected", !.error = error]

\* a service method calls apiClient: the request interceptor puts the stored
\* access token into the Authorization header and the request goes out
ApiSend(r) ==
    /\ auth.isAuthenticated
    /\ api[r].phase = "unsent" /\ \A r2 \in Requests : r2 < r => api[r2].phase # "unsent"
    /\ api' = [api EXCEPT ![r] = Stepped([@ EXCEPT !.phase = "sent",
                                                    !.authorization = secureStore[ACCESS_TOKEN]])]
    /\ UNCHANGED <<auth, secureStore, sessionVars, dataVars, clipboard>>

\* the response arrives: 200 resolves; 401 on a request not marked _retry
\* starts the refresh; anything else rejects
ApiRespond(r, status) ==
    /\ api[r].phase = "sent"
    /\ api' = [api EXCEPT ![r] =
                  Stepped(IF status = 200 THEN [@ EXCEPT !.phase = "resolved"]
                          ELSE IF status = 401 /\ ~@.retry THEN markRetry(@)
                          ELSE rejected(@, "Request failed"))]
    /\ UNCHANGED <<auth, secureStore, sessionVars, dataVars, clipboard>>

\* SecureStore.getItemAsync(REFRESH_TOKEN) returns: without a token the
\* handler throws, with one it posts it to the refresh endpoint
ApiRefreshTokenRead(r) ==
    /\ api[r].phase = "readingRefreshToken"
    /\ api' = [api EXCEPT ![r] =
                  Stepped(IF secureStore[REFRESH_TOKEN] = NULL
                          THEN refreshFailed(@, "No refresh token available")
                          ELSE [@ EXCEPT !.phase = "refreshing", !.token = secureStore[REFRESH_TOKEN],
                                         !.refreshes = @ + 1])]
    /\ UNCHANGED <<auth, secureStore, sessionVars, dataVars, clipboard>>

\* the refresh endpoint answers with new tokens, or the post fails
ApiRefreshRespond(r, ok) ==
    /\ api[r].phase = "refreshing"
    /\ api' = [api EXCEPT ![r] =
                  Stepped(IF ok THEN [@ EXCEPT !.phase = "storingAccess"]
                          ELSE refreshFailed(@, "Request failed"))]
    /\ UNCHANGED <<auth, secureStore, sessionVars, dataVars, clipboard>>

\* SecureStore.setItemAsync(ACCESS_TOKEN, newAccessToken) returns or throws
ApiStoreAccess(r, ok) ==
    /\ api[r].phase = "storingAccess"
    /\ IF ok
       THEN /\ secureStore' = setItem(secureStore, ACCESS_TOKEN, NewAccessTokenOf(api[r].token))
            /\ api' = [api EXCEPT ![r] = Stepped([@ EXCEPT !.phase = "storingRefresh"])]
       ELSE /\ api' = [api EXCEPT ![r] = Stepped(refreshFailed(@, "SecureStore error"))]
            /\ UNCHANGED secureStore
    /\ UNCHANGED <<auth, sessionVars, dataVars, clipboard>>

\* SecureStore.setItemAsync(REFRESH_TOKEN, newRefreshToken) returns, and the
\* request is sent again through apiClient, whose request interceptor puts the
\* stored access token into the header; or the write throws
ApiStoreRefresh(r, ok) ==
    /\ api[r].phase = "storingRefresh"
    /\ IF ok
       THEN /\ secureStore' = setItem(secureStore, REFRESH_TOKEN, NewRefreshTokenOf(api[r].token))
            /\ api' = [api EXCEPT ![r] =
                          Stepped([@ EXCEPT !.phase = "sent", !.replays = @ + 1,
                                            !.authorization =
                                                IF secureStore[ACCESS_TOKEN] # NULL
                                                THEN secureStore[ACCESS_TOKEN]
                                                ELSE NewAccessTokenOf(api[r].token)])]
       ELSE /\ api' = [api EXCEPT ![r] = Stepped(refreshFailed(@, "SecureStore error"))]
            /\ UNCHANGED secureStore
    /\ UNCHANGED <<auth, sessionVars, dataVars, clipboard>>

\* clearTokens in the catch: deleteItemAsync(ACCESS_TOKEN) returns, or throws
\* and the handler rejects with that error
ApiClearAccess(r, ok) ==
    /\ api[r].phase = "clearingAccess"
    /\ IF ok
       THEN /\ secureStore' = deleteItem(secureStore, ACCESS_TOKEN)
            /\ api' = [api EXCEPT ![r] = Stepped([@ EXCEPT !.phase = "clearingRefresh"])]
       ELSE /\ api' = [api EXCEPT ![r] = Stepped(rejected(@, "SecureStore error"))]
            /\ UNCHANGED secureStore
    /\ UNCHANGED <<auth, sessionVars, dataVars, clipboard>>

\* clearTokens in the catch: deleteItemAsync(REFRESH_TOKEN) returns and the
\* handler rejects with the refresh error, or the delete throws
ApiClearRefresh(r, ok) ==
    /\ api[r].phase = "clearingRefresh"
    /\ IF ok
       THEN /\ secureStore' = deleteItem(secureStore, REFRESH_TOKEN)
            /\ api' = [api EXCEPT ![r] = Stepped(rejected(@, @.error))]
       ELSE /\ api' = [api EXCEPT ![r] = Stepped(rejected(@, "SecureStore error"))]
            /\ UNCHANGED secureStore
    /\ UNCHANGED <<auth, sessionVars, dataVars, clipboard>>

\* status codes the API answers with
Statuses == {200, 401, 500}

ApiNext ==
    \/ \E r \in Requests : ApiSend(r)
    \/ \E r \in Requests, status \in Statuses : ApiRespond(r, status)
    \/ \E r \in Requests : ApiRefreshTokenRead(r)
    \/ \E r \in Requests, ok \in BOOLEAN : ApiRefreshRespond(r, ok)
    \/ \E r \in Requests, ok \in BOOLEAN : ApiStoreAccess(r, ok)
    \/ \E r \in Requests, ok \in BOOLEAN : ApiStoreRefresh(r, ok)
    \/ \E r \in Requests, ok \in BOOLEAN : ApiClearAccess(r, ok)
    \/ \E r \in Requests, ok \in BOOLEAN : ApiClearRefresh(r, ok)

\* signed in and unlocked, with requests going through apiClient
ApiSpec == VaultInit /\ [][ApiNext]_vars

----------------------------------------------------------------------------
(* clipboard.ts.  A copyToClipboard call and the timer it arms are one entry *)
(* of clipboard.timers: copying (setStringAsync awaited), armed, read (the   *)
(* callback runs and getStringAsync has returned), clearing (the callback's  *)
(* setStringAsync('') awaited), done, cancelled, or plain (no auto-clear).   *)

Timer(t) == clipboard.timers[t]

SetTimer(t, timer) == [clipboard EXCEPT !.timers[t] = timer]

clearTimeout_ignored(timer) == timer

\* clearTimeout(timer): a timer that has not fired never will
clearTimeout(timer) == IF timer.state = "armed" THEN [timer EXCEPT !.state = "cancelled"] ELSE timer

\* activeTimers.delete(timer)
untrack(timer) == [timer EXCEPT !.tracked = FALSE]

\* setTimeout(callback, CLIPBOARD_CLEAR_TIMEOUT); activeTimers.add(timer)
arm(timer, now) ==
    [timer EXCEPT !.state = "armed", !.copiedAt = now, !.due = now + CLIPBOARD_CLEAR_TIMEOUT,
                  !.tracked = TRUE]

\* copyToClipboard(text, autoClear) is called: Clipboard.setStringAsync(text)
CopyToClipboard(t, text, autoClear) ==
    /\ Timer(t).state = "none" /\ \A t2 \in TimerIds : t2 < t => Timer(t2).state # "none"
    /\ clipboard' = [clipboard EXCEPT !.content = text,
                                      !.timers[t] = [NoTimer EXCEPT !.state = "copying", !.text = text,
                                                                    !.autoClear = autoClear]]
    /\ UNCHANGED <<auth, secureStore, sessionVars, dataVars, api>>

\* setStringAsync has returned: the timer is armed and the cleanup function
\* returned; without auto-clear a no-op is returned
CopyReturns(t) ==
    /\ Timer(t).state = "copying"
    /\ clipboard' = SetTimer(t, IF Timer(t).autoClear THEN arm(Timer(t), clipboard.now)
                                ELSE [Timer(t) EXCEPT !.state = "plain"])
    /\ UNCHANGED <<auth, secureStore, sessionVars, dataVars, api>>

\* the timeout has passed: the callback runs and Clipboard.getStringAsync()
\* reads the clipboard
TimerFires(t) ==
    /\ Timer(t).state = "armed" /\ clipboard.now >= Timer(t).due
    /\ clipboard' = SetTimer(t, [Timer(t) EXCEPT !.state = "read", !.seen = clipboard.content])
    /\ UNCHANGED <<auth, secureStore, sessionVars, dataVars, api>>

\* the callback goes on with what it read: the same text is replaced by '',
\* anything else is left and the timer leaves activeTimers
TimerCompares(t) ==
    /\ Timer(t).state = "read"
    /\ clipboard' = IF Timer(t).seen = Timer(t).text
                    THEN [clipboard EXCEPT !.content = "", !.timers[t].state = "clearing"]
                    ELSE SetTimer(t, untrack([Timer(t) EXCEPT !.state = "done"]))
    /\ UNCHANGED <<auth, secureStore, sessionVars, dataVars, api>>

\* setStringAsync('') has returned: activeTimers.delete(timer)
TimerCleared(t) ==
    /\ Timer(t).state = "clearing"
    /\ clipboard' = SetTimer(t, untrack([Timer(t) EXCEPT !.state = "done"]))
    /\ UNCHANGED <<auth, secureStore, sessionVars, dataVars, api>>

\* the cleanup function copyToClipboard returned is called
Cleanup(t) ==
    /\ Timer(t).state \in {"armed", "read", "clearing", "done"} /\ Timer(t).tracked
    /\ clipboard' = SetTimer(t, untrack(clearTimeout(Timer(t))))
    /\ UNCHANGED <<auth, secureStore, sessionVars, dataVars, api>>

\* clearAllClipboardTimers()
ClearAllClipboardTimers ==
    /\ \E t \in TimerIds : Timer(t).tracked
    /\ clipboard' = [clipboard EXCEPT !.timers =
                        [t \in TimerIds |-> IF Timer(t).tracked THEN untrack(clearTimeout(Timer(t)))
                                            ELSE Timer(t)]]
    /\ UNCHANGED <<auth, secureStore, sessionVars, dataVars, api>>

\* something else is copied, here or in another application
OtherCopy ==
    /\ clipboard.content # "other"
    /\ clipboard' = [clipboard EXCEPT !.content = "other"]
    /\ UNCHANGED <<auth, secureStore, sessionVars, dataVars, api>>

\* time passes
Tick ==
    /\ clipboard.now < MaxTicks * (CLIPBOARD_CLEAR_TIMEOUT \div 2)
    /\ clipboard' = [clipboard EXCEPT !.now = @ + (CLIPBOARD_CLEAR_TIMEOUT \div 2)]
    /\ UNCHANGED <<auth, secureStore, sessionVars, dataVars, api>>

ClipboardNext ==
    \/ \E t \in TimerIds, text \in ClipTexts, autoClear \in BOOLEAN : CopyToClipboard(t, text, autoClear)
    \/ \E t \in TimerIds : CopyReturns(t)
    \/ \E t \in TimerIds : TimerFires(t)
    \/ \E t \in TimerIds : TimerCompares(t)
    \/ \E t \in TimerIds : TimerCleared(t)
    \/ \E t \in TimerIds : Cleanup(t)
    \/ ClearAllClipboardTimers
    \/ OtherCopy
    \/ Tick

\* signed in and unlocked, with values copied from the item screen
ClipboardSpec == VaultInit /\ [][ClipboardNext]_vars

----------------------------------------------------------------------------
(* Properties *)

\* the step is lockApp() returning (called by the AppState listener)
LockAppReturns == Background /\ listener.isAuthenticated /\ listener.encryptionKey

\* the step is logout() resolving
LogoutResolves == \E p \in Procs : LogoutDone(p)

\* C1: immediately after lockApp() returns, and immediately after logout()
\* resolves, the store's encryptionKey is null.
C1_KeyAbsentAfterLockOrLogout ==
    [][(LockAppReturns \/ LogoutResolves) => auth'.encryptionKey = NULL]_vars

\* C1 witness: the app has just been sent to the background with a key
\* resident and the listener's lockApp() has cleared it.
C1_Witness ==
    /\ appState = "background" /\ listener.encryptionKey
    /\ auth.user # NULL /\ auth.isAuthenticated /\ auth.encryptionKey = NULL

\* C2: once lockApp() or logout() has returned, a login, register or unlockApp
\* call that was in flight at that point never installs a key: the step that
\* ends such a call leaves encryptionKey as it was, or null.
C2_NoKeyFromCallInFlightAtLock ==
    [][\A p \in Procs :
         (calls[p].preLock /\ calls'[p] # calls[p])
            => auth'.encryptionKey \in {NULL, auth.encryptionKey}]_vars

\* C3: a non-null encryptionKey implies a non-null user, isAuthenticated, and
\* a key derived with the current user's id as salt.
C3_UnlockedHasAccountContext ==
    auth.encryptionKey # NULL =>
        /\ auth.user # NULL
        /\ auth.isAuthenticated
        /\ \E pw \in Passwords : auth.encryptionKey = pbkdf2Sha256(pw, auth.user)

\* C4: no entry of the secure store holds a derived encryption key.
C4_KeyNeverPersisted == \A k \in STORAGE_KEYS : secureStore[k] \notin DerivedKeys

\* C4 witness: a key is resident while the secure store holds the tokens and
\* what handleUnlock saved for biometric unlock.
C4_Witness ==
    /\ auth.encryptionKey \in DerivedKeys
    /\ secureStore[ACCESS_TOKEN] # NULL
    /\ secureStore[BIOMETRIC_PASSWORD] # NULL

\* C5: no request sent to the authentication service contains the master
\* password.
C5_MasterPasswordNeverSent == wire.password \notin Passwords

\* the step is handleUnlock saving the password after unlockApp resolved
SavesPassword == \E p \in Procs : calls[p].caller = "handleUnlock+biometric" /\ UnlockDerivedOk(p)

C7_LockedInBackground == ~(appState = "background" /\ auth.encryptionKey # NULL)

\* loadSession found both tokens: the value of its first read and of its second
FoundTokens(p) == calls[p].acc # NULL /\ secureStore[REFRESH_TOKEN] # NULL

\* C8: loadSession() never restores a key: when it finds both tokens it leaves
\* the store authenticated and locked, and when it finds none it leaves the
\* store unauthenticated, with encryptionKey null.
C8_LoadSessionRestoresNoKey ==
    [][\A p \in Procs : LoadSessionDone(p) =>
          /\ auth'.encryptionKey = NULL
          /\ auth'.isAuthenticated = FoundTokens(p)]_vars

\* C8 witness: a session restored from persisted tokens, authenticated and locked.
C8_Witness ==
    /\ auth.isAuthenticated /\ auth.encryptionKey = NULL
    /\ auth.accessToken # NULL /\ auth.refreshToken # NULL
    /\ auth.user = NULL /\ ~auth.isLoading

\* C9: after loadSession() has restored a session the account context is
\* there, so that unlockApp with a password of valid length is accepted: in
\* every authenticated, locked and idle state of the store, unlockApp with
\* such a password goes on to derive the key.
C9_UnlockAcceptedAfterRestore ==
    (auth.isAuthenticated /\ auth.encryptionKey = NULL /\ ~auth.isLoading)
        => \A pw \in Passwords :
              Len(pw) >= MIN_PASSWORD_LENGTH => UnlockRejection(auth, pw) = NULL

\* C10: unlockApp with a master password other than the account's leaves the
\* store locked: encryptionKey is still null when the call ends.
C10_WrongPasswordStaysLocked ==
    [][\A p \in Procs :
         (UnlockDerivedOk(p) /\ calls[p].pw # serverPw[calls[p].uid] /\ auth.encryptionKey = NULL)
            => auth'.encryptionKey = NULL]_vars

\* the part of the session that a lock or a rejected unlock must leave alone
SessionOf(a) == <<a.user, a.accessToken, a.refreshToken, a.isAuthenticated>>

\* the step is unlockApp rejecting: thrown before its first await, or in its catch
UnlockRejects ==
    \/ \E p \in Procs, pw \in Passwords : HandleUnlock(p, pw) /\ UnlockRejection(auth, pw) # NULL
    \/ \E p \in Procs : HandleBiometricUnlock(p) /\ UnlockRejection(auth, secureStore[BIOMETRIC_PASSWORD]) # NULL
    \/ \E p \in Procs : UnlockDerivedFailed(p)

\* C12: unlockApp with no user throws 'No active session' and modifies no
\* field of the store (the unlock screen's clearError() before the call is
\* the only change of the step); and whenever unlockApp rejects, for a short
\* password or a failed derivation, encryptionKey, user, accessToken,
\* refreshToken and isAuthenticated are what they were before.
C12_RejectedUnlockKeepsSession ==
    [][/\ UnlockRejects =>
            /\ SessionOf(auth') = SessionOf(auth)
            /\ auth'.encryptionKey = auth.encryptionKey
       /\ \A p \in Procs, pw \in Passwords :
            (HandleUnlock(p, pw) /\ auth.user = NULL) =>
                /\ UnlockRejection(auth, pw) = "No active session"
                /\ auth' = [auth EXCEPT !.error = NULL]
                /\ calls' = calls]_vars

\* C12 witness: a locked session with its account context after unlockApp
\* rejected a password below the minimum length.
C12_Witness ==
    /\ auth.error = "Master password must be at least 8 characters"
    /\ auth.user # NULL /\ auth.isAuthenticated /\ auth.accessToken # NULL
    /\ auth.encryptionKey = NULL /\ ~auth.isLoading

\* the key of the session of account u: derived from the password that
\* account's login or registration was accepted with
SessionKey(u) == pbkdf2Sha256(serverPw[u], u)

\* C13: login and register install the key derived from (password, account
\* id), and unlockApp with the same password in that session installs the
\* identical key.
C13_UnlockReproducesKey ==
    [][\A p \in Procs :
         /\ ((LoginDerived(p) \/ RegisterSaved(p))
                /\ auth' = setSession(auth, calls[p].uid, auth'.encryptionKey))
               => auth'.encryptionKey = SessionKey(calls[p].uid)
         /\ (UnlockDerivedOk(p) /\ auth.user # NULL /\ calls[p].pw = serverPw[auth.user])
               => auth'.encryptionKey = SessionKey(auth.user)]_vars

\* C13 witness: a session that was locked in the background and unlocked
\* again holds the key of its login.
C13_Witness ==
    /\ auth.user # NULL /\ auth.encryptionKey = SessionKey(auth.user)
    /\ secureStore[BIOMETRIC_PASSWORD] = serverPw[auth.user]
    /\ appState = "active" /\ route = "app"

\* C14: lockApp() leaves user, accessToken, refreshToken and isAuthenticated
\* as they were and does not modify the secure store.
C14_LockKeepsAccountContext ==
    [][LockAppReturns =>
          /\ SessionOf(auth') = SessionOf(auth)
          /\ secureStore' = secureStore]_vars

\* C14 witness: locked by the background signal, the session still has its
\* user and tokens, in memory and in the secure store.
C14_Witness ==
    /\ appState = "background" /\ listener.encryptionKey /\ auth.encryptionKey = NULL
    /\ auth.user # NULL /\ auth.accessToken = AccessTokenOf(auth.user)
    /\ auth.refreshToken = RefreshTokenOf(auth.user) /\ auth.isAuthenticated
    /\ secureStore[ACCESS_TOKEN] = auth.accessToken
    /\ secureStore[REFRESH_TOKEN] = auth.refreshToken

\* C15: after logout() resolves, encryptionKey, user, accessToken and
\* refreshToken are null, isAuthenticated is false, and the secure store
\* holds neither token; the outcome of the remote call plays no part.
C15_LogoutDiscardsSession ==
    [][LogoutResolves =>
          /\ auth'.encryptionKey = NULL /\ auth'.user = NULL
          /\ auth'.accessToken = NULL /\ auth'.refreshToken = NULL
          /\ ~auth'.isAuthenticated
          /\ secureStore'[ACCESS_TOKEN] = NULL
          /\ secureStore'[REFRESH_TOKEN] = NULL]_vars

\* C18: for every plaintext string, the empty string included, and every
\* valid key, encryptData returns a record and decryptData of that record
\* with the same key returns exactly the plaintext.
C18_RoundTrip ==
    cipher.op = "encryptData" =>
        /\ cipher.out.ok
        /\ decryptData(cipher.out.record, cipher.key) = Returned(cipher.plaintext)

\* the failures of decryption named by the claim: any Error thrown by
\* decryptData or decryptObject called with a key
DecryptionFails == cipher.op \in {"decryptData", "decryptObject"} /\ ~cipher.out.ok

\* C20: a wrong key, a tampered ciphertext or tag, a malformed nonce or
\* record structure and plaintext that does not parse are all reported to
\* the caller of decryptData and decryptObject as the same error.
C20_OpaqueDecryptionFailure == DecryptionFails => cipher.out.value = DecryptionFailed

\* the record is what encryptObject returns for some item data under the key
EncryptedUnder(record, key) ==
    \E d \in ItemData, n \in 0..(Len(Nonces) - 1) : record = encryptObject(d, key, n).record

\* C11: after a lock and an unlock with an incorrect master password, decryptItem
\* on an item encrypted under the correct key fails with the decryption-failure
\* error of the item service, and adds no entry to decryptedItems.
C11_WrongKeyDecryptFails ==
    [][\A q \in ItemProcs :
          (/\ DecryptItemDone(q)
           /\ EncryptedUnder(itemCalls[q].record, SessionKey(VaultAccount))
           /\ itemCalls[q].key # SessionKey(VaultAccount))
          => /\ itemCalls'[q].settled = DecryptItemFailed
             /\ itemStore'.decryptedItems = itemStore.decryptedItems]_vars

\* the key of a wrong password is resident, a decryptItem call on an item
\* encrypted under the correct key has failed, and the item has no cache entry
C11_Witness ==
    /\ auth.encryptionKey \notin {NULL, SessionKey(VaultAccount)}
    /\ \E q \in ItemProcs : itemCalls[q].settled = DecryptItemFailed
    /\ \E i \in ItemIds : /\ EncryptedUnder(itemStore.items[i], SessionKey(VaultAccount))
                          /\ itemStore.decryptedItems[i] = NULL

\* C16: after logout() completes the secure store holds neither tokens nor a
\* master password saved for biometric unlock, and the vault store and the item
\* store hold no vaults, no items and no decrypted items.
C16_LogoutClearsLocalData ==
    [][LogoutResolves =>
          /\ secureStore'[ACCESS_TOKEN] = NULL
          /\ secureStore'[REFRESH_TOKEN] = NULL
          /\ secureStore'[BIOMETRIC_PASSWORD] = NULL
          /\ vaultStore'.vaults = {}
          /\ \A i \in ItemIds : /\ itemStore'.items[i] = NoRecord
                                /\ itemStore'.decryptedItems[i] = NULL]_vars

\* C17: after lockApp() returns and after logout() resolves, decryptedItems is
\* empty.
C17_CacheClearedOnLockAndLogout ==
    [][(LockAppReturns \/ LogoutResolves) =>
          \A i \in ItemIds : itemStore'.decryptedItems[i] = NULL]_vars

\* C19: the iv values of the records encryptData has returned are pairwise
\* distinct, and the record an update stores never carries the iv of the record
\* it replaces.
C19_FreshNoncePerEncryption ==
    /\ \A m, n \in 1..Len(issuedIvs) : m # n => issuedIvs[m] # issuedIvs[n]
    /\ \A q \in ItemProcs :
          (itemCalls[q].op = "updateItem" /\ itemCalls[q].record # NoRecord)
          => itemCalls[q].record.iv # server.items[itemCalls[q].item].iv

\* an item created under the session key has been encrypted again by updateItem
\* under the same key, and the service holds the second record
C19_Witness ==
    /\ Len(issuedIvs) >= 2
    /\ \E i \in ItemIds :
          /\ server.items[i].iv = issuedIvs[2]
          /\ server.items[i] = encryptObject("p2", SessionKey(VaultAccount), 1).record

\* the errors deriveEncryptionKey raises for arguments it does not accept
InvalidInput == {"Master password must be at least 8 characters", "User ID is required as salt"}

Refreshing == {r \in Requests : api[r].phase = "refreshing"}

\* C22: at most one refresh request is in flight at a time, however many
\* requests received 401.
C22_SingleFlightRefresh == Cardinality(Refreshing) <= 1

\* the step ends the 401 handler of a request whose refresh failed
RefreshFailureEnds(r) ==
    api[r].phase \in {"clearingAccess", "clearingRefresh"} /\ api'[r].phase = "rejected"

\* C23: when the 401 handler ends after a failed refresh, the secure store
\* holds no tokens and the auth store is unauthenticated with encryptionKey null.
C23_RefreshFailureLogsOut ==
    [][\A r \in Requests :
          RefreshFailureEnds(r) =>
              /\ secureStore'[ACCESS_TOKEN] = NULL /\ secureStore'[REFRESH_TOKEN] = NULL
              /\ ~auth'.isAuthenticated /\ auth'.encryptionKey = NULL]_vars

\* the most steps the interceptors take for one request: sent, 401, token
\* read, refresh answered, the first write, the second write throwing, and the
\* two deletes of clearTokens
MaxHandlerSteps == 8

\* C25: each request causes at most one refresh request and is sent again at
\* most once, and the interceptors end within a fixed number of steps.
C25_RetriedAtMostOnce ==
    \A r \in Requests :
        /\ api[r].refreshes <= 1
        /\ api[r].replays <= 1
        /\ api[r].steps <= MaxHandlerSteps
        /\ api[r].steps = MaxHandlerSteps => api[r].phase \in {"resolved", "rejected"}

\* a request was refreshed, replayed, answered 401 again and rejected
C25_Witness ==
    \E r \in Requests :
        /\ api[r].phase = "rejected" /\ api[r].retry
        /\ api[r].refreshes = 1 /\ api[r].replays = 1 /\ api[r].error = "Request failed"

\* C24: a timer fires no earlier than 60 seconds after the copy; its callback
\* replaces the clipboard by '' when it read the copied text and leaves it
\* untouched when it read anything else; a timer cancelled while pending never
\* runs; the cleanup function removes its timer from activeTimers and
\* clearAllClipboardTimers leaves activeTimers empty.
C24_ClipboardAutoClear ==
    [][/\ \A t \in TimerIds :
            /\ TimerFires(t) => clipboard.now - Timer(t).copiedAt >= 60000
            /\ TimerCompares(t) =>
                   clipboard'.content = IF Timer(t).seen = Timer(t).text THEN "" ELSE clipboard.content
            /\ Timer(t).state = "cancelled" =>
                   clipboard'.timers[t] = Timer(t) /\ ~Timer(t).tracked
            /\ Cleanup(t) =>
                   /\ ~clipboard'.timers[t].tracked
                   /\ Timer(t).state = "armed" => clipboard'.timers[t].state = "cancelled"
       /\ ClearAllClipboardTimers =>
            \A t \in TimerIds :
               /\ ~clipboard'.timers[t].tracked
               /\ Timer(t).state = "armed" => clipboard'.timers[t].state = "cancelled"]_vars

\* one copy was cleared by its timer after the timeout, and another copy's
\* timer was cancelled and has not run although its timeout has passed
C24_Witness ==
    \E t1, t2 \in TimerIds :
        /\ Timer(t1).state = "done" /\ Timer(t1).seen = Timer(t1).text
        /\ Timer(t2).state = "cancelled" /\ clipboard.now >= Timer(t2).due
        /\ clipboard.content = Timer(t2).text
        /\ \A t \in TimerIds : ~Timer(t).tracked

\* the step is call q of the given store operation completing successfully
Succeeds(q, op) == itemCalls[q].op = op /\ itemCalls'[q] = Settled("resolved")

\* cache and list entries of every item but itemId are as they were
OthersUntouched(itemId) ==
    \A j \in ItemIds \ {itemId} :
        /\ itemStore'.decryptedItems[j] = itemStore.decryptedItems[j]
        /\ itemStore'.items[j] = itemStore.items[j]

\* C26: when updateItem or deleteItem of an item completes successfully,
\* decryptedItems has no entry for the item, after deleteItem the item is not in
\* items, and the entries of all other items are untouched.
C26_UpdateDeleteDropCacheEntry ==
    [][\A q \in ItemProcs :
          /\ Succeeds(q, "updateItem") =>
                /\ itemStore'.decryptedItems[itemCalls[q].item] = NULL
                /\ OthersUntouched(itemCalls[q].item)
          /\ Succeeds(q, "deleteItem") =>
                /\ itemStore'.decryptedItems[itemCalls[q].item] = NULL
                /\ itemStore'.items[itemCalls[q].item] = NoRecord
                /\ OthersUntouched(itemCalls[q].item)]_vars

\* an item that was decrypted has been updated and its cache entry is gone,
\* while the other item is in the list with its cache entry
C26_Witness ==
    \E i, j \in ItemIds :
        /\ i # j
        /\ \E q \in ItemProcs : itemCalls[q] = Settled("resolved")
        /\ itemStore.items[i] = encryptObject("p2", SessionKey(VaultAccount), 2).record
        /\ itemStore.decryptedItems[i] = NULL
        /\ itemStore.items[j] # NoRecord /\ itemStore.decryptedItems[j] = "p1"

\* the operations of the item store the claim names
StoreOps == {"fetchItems", "createItem", "updateItem", "deleteItem", "decryptItem"}

\* the step is call q of a store operation failing with the message
Fails(q, message) ==
    /\ itemCalls'[q] = Settled(message) /\ message # "resolved"
    /\ \/ itemCalls[q].op \in StoreOps
       \/ \E i \in ItemIds : DecryptItemNotFound(q, i)

\* C27: when fetchItems, createItem, updateItem, deleteItem or decryptItem
\* fails, items and decryptedItems are unchanged, error is the failure message,
\* isLoading is false, and the message is what the caller is thrown.
C27_FailureChangesNoData ==
    [][\A q \in ItemProcs :
          Fails(q, itemCalls'[q].settled) =>
              /\ itemStore'.items = itemStore.items
              /\ itemStore'.decryptedItems = itemStore.decryptedItems
              /\ itemStore'.error = itemCalls'[q].settled
              /\ ~itemStore'.isLoading]_vars

\* C30: an item that holds the ciphertext an update stored is never mapped by
\* decryptedItems to the plaintext of its ciphertext from before the update.
C30_NoStalePlaintextAfterUpdate ==
    \A i \in ItemIds :
        (/\ itemStore.items[i] # NoRecord
         /\ decryptVaultItem(itemStore.items[i], SessionKey(VaultAccount)) = Returned("p2"))
        => itemStore.decryptedItems[i] \in {NULL, "p2"}

\* the step is login() or register() of call p rejecting: the call ends in the
\* catch of the store action
AuthRejects(p) ==
    /\ calls[p].op \in {"login", "register"} /\ calls'[p] = Idle
    /\ AuthResponse(p) \/ AuthSaveRefresh(p) \/ LoginDerived(p) \/ RegisterDerived(p)
    /\ auth' # setSession(auth, calls[p].uid, pbkdf2Sha256(calls[p].pw, calls[p].uid))

\* C28: when login() or register() rejects, the secure store holds neither the
\* access token nor the refresh token the authentication service issued to
\* that attempt.
C28_RejectedLoginLeavesNoTokens ==
    [][\A p \in Procs :
          (AuthRejects(p) /\ calls[p].pc # "post") =>
              /\ secureStore'[ACCESS_TOKEN] # AccessTokenOf(calls[p].uid)
              /\ secureStore'[REFRESH_TOKEN] # RefreshTokenOf(calls[p].uid)]_vars

\* the step ends an execution of logout(), resolved or rejected
LogoutEnds(p) == calls[p].op = "logout" /\ calls'[p].op = "idle"

\* C29: every execution of logout() ends with encryptionKey, user and tokens
\* null in the auth store, also when a delete of clearTokens throws.
C29_LogoutAlwaysClearsKey ==
    [][\A p \in Procs :
          LogoutEnds(p) =>
              /\ auth'.encryptionKey = NULL /\ auth'.user = NULL
              /\ auth'.accessToken = NULL /\ auth'.refreshToken = NULL]_vars

====
